---------------------------- MODULE Spec2Model ----------------------------
(***************************************************************************)
(* A model of backend/app/main.py: the WebRTC frame pipeline               *)
(* (offer / on_track / recv_frames) with its result queue, data channel    *)
(* and throttle, the process-wide latest_result register read by GET       *)
(* /latest and written by recv_frames and POST /infer, the in-memory       *)
(* telemetry store behind /metrics/ingest and /metrics/summary, and the    *)
(* room relay behind the WebSocket endpoint /ws.                           *)
(*                                                                         *)
(* The handlers run on one asyncio event loop, so an action is the code    *)
(* between two suspension points.  In recv_frames the suspension points    *)
(* are the wait for the next frame, a put on a full queue, and the         *)
(* throttling sleep; detector.infer is synchronous.  track.recv() is taken  *)
(* to yield the frames of the track one by one until the source ends, as   *)
(* the async for of recv_frames expects.                                   *)
(*                                                                         *)
(* Spec is the pipeline with the HTTP readers and writers of               *)
(* latest_result, SpecPipeline the pipeline alone with the fairness of the *)
(* event loop, SpecPush the pipeline with the events of its data channels, *)
(* SpecMetrics the telemetry store, SpecRelay the relay.                   *)
(***************************************************************************)
EXTENDS Integers, Sequences, FiniteSets, TLC

(***************************************************************************)
(* Bounds of the model.                                                    *)
(***************************************************************************)
\* Frames handed to the detector, by all tracks and all POST /infer
\* requests together, before the model stops feeding them.
MaxFrames == 3
\* Time the handlers of the pipeline may take, all together (ms).
MaxBusy == 70
\* Seconds that may pass between telemetry requests, all together.
MaxTicks == 1
\* POST /metrics/ingest requests served.
MaxIngests == 4
\* Stands for the retention limit 10000 of metrics_store (main.py:240),
\* scaled down so that eviction happens within MaxIngests requests.
N_max == 3

(***************************************************************************)
(* Values.                                                                 *)
(***************************************************************************)
\* Python's None.
None == [none |-> TRUE]

\* The wall clock (ms since the epoch) when the process starts; it is far
\* from 0 on any real host.
Epoch0 == 5000

\* Time that may pass between two reads of time.time() in one handler (ms).
Delays == {0, 70}

\* Peer connections made by POST /offer, and the tracks they receive.
\* They are numbered in the order they are created.
Conns == {1, 2}
Tracks == {1, 2}

\* A frame_id is an int in recv_frames (main.py:139,142) and the text of a
\* form field in infer_endpoint (main.py:210).  IntId(n) is the int n,
\* StrId(n) the str holding the decimal numeral of n; they are never equal.
IntId(n) == [type |-> "int", val |-> n]
StrId(n) == [type |-> "str", val |-> n]

\* Frames and uploads, by what the detector does with them:
\*   "undecodable"  cv2.imdecode returns None, infer raises on None.shape
\*   "bad"          an array on which an OpenCV call raises
\*   "blank"        no contour of area >= 200: infer returns []
\*   "blob"         one contour of area >= 200: infer returns one box
TrackFrames == {"bad", "blank", "blob"}
Uploads == {"undecodable", "blank", "blob"}

\* A detection box.  The label (np.random.choice) and the score
\* (np.random.uniform) are left out: nothing below reads them.
Box == [xmin |-> 0, ymin |-> 0, xmax |-> 1, ymax |-> 1]

\* SimpleDetector.infer on a frame: it raises, or returns its detections.
infer(frame) ==
  IF frame \in {"undecodable", "bad"} THEN [raised |-> TRUE, dets |-> <<>>]
  ELSE IF frame = "blank" THEN [raised |-> FALSE, dets |-> <<>>]
  ELSE [raised |-> FALSE, dets |-> <<Box>>]

\* The dict built at main.py:149-155 and main.py:220-226.
Message(fid, cap, rcv, inf, dets) ==
  [frame_id |-> fid, capture_ts |-> cap, recv_ts |-> rcv,
   inference_ts |-> inf, detections |-> dets]

\* The literal returned by GET /latest when nothing is held.
Sentinel == Message(IntId(-1), 0, 0, 0, <<>>)

\* Python truth of an Optional[dict]: None and {} are false.
Truthy(v) == v # None /\ DOMAIN v # {}

VARIABLES
  now,            \* time.time() in ms
  conns,          \* the peer connections created by offer
  result_queue,   \* per connection: asyncio.Queue(maxsize=1), as a sequence
  task,           \* per track: the recv_frames task, or None
  latest_result,  \* the global latest_result
  n_infers,       \* POST /infer requests served
  metrics_store,  \* the global metrics_store
  response,       \* the HTTP response of the step just taken, with its
                  \* request; None when the step served no HTTP request
  published,      \* history: per track, the frame_id values it published, in order
  last_pub,       \* history: the message of the most recent publish, or None
  writer,         \* history: who made the most recent publish
  ingested,       \* history: every payload ingested, in arrival order
  raised_on,      \* history: per track, the frame_id on which infer raised, or 0
  channel,        \* per connection: readyState of results_channel
  notified,       \* history: per track, the frame_id values sent on the channel
  visible,        \* history: the values of metrics_store that other handlers
                  \* could read during the last ingest
  rooms,          \* the global rooms: room -> its client ids, in insertion order
  handler,        \* per WebSocket: the position of its ws_endpoint coroutine
  socket,         \* per WebSocket: the peer's end, "none", "open" or "closed"
  messages,       \* history: the text messages received by the relay
  calls           \* history: per message and client, the send_text calls made

\* The variables of the relay.
relay_vars == <<rooms, handler, socket, messages, calls>>

vars == <<now, conns, result_queue, task, latest_result, n_infers, metrics_store,
          response, published, last_pub, writer, ingested, raised_on,
          channel, notified, visible, relay_vars>>

\* The values of writer.
NoWriter == [kind |-> "nobody", id |-> 0]
TrackWriter(t) == [kind |-> "track", id |-> t]
InferWriter == [kind |-> "infer", id |-> 0]

\* asyncio.Queue(maxsize=1) at main.py:133.
QueueMaxsize == 1

\* Frames delivered so far by all tracks.
RECURSIVE FramesOf(_, _)
FramesOf(tk, ts) ==
  IF ts = {} THEN 0
  ELSE LET t == CHOOSE x \in ts : TRUE
       IN (IF tk[t] = None THEN 0 ELSE tk[t].frame_id) + FramesOf(tk, ts \ {t})

\* The loop at main.py:157-161: get_nowait until the queue is empty
\* (get_nowait raises only on an empty queue, which the loop test excludes).
DrainNothing(q) == q

RECURSIVE Drain(_)
Drain(q) == IF q = <<>> THEN q ELSE Drain(Tail(q))

\* WebSocket connections to /ws, numbered in the order they are accepted;
\* client c has client_id str(id(ws)), distinct for distinct live objects.
Clients == {1, 2, 3}
\* The room query parameter.
RoomNames == {"a", "b"}

\* rooms = {} at main.py:99.
NoRooms == [r \in {} |-> <<>>]

\* A ws_endpoint coroutine that has not started: pc is "none", then
\* "receive" (in receive_text), "send" (in a send_text of the forwarding
\* loop, todo being the rest of the snapshot) or "closed" (returned).
NotStarted == [pc |-> "none", room |-> "", message |-> 0, todo |-> <<>>]

Init ==
  /\ now = Epoch0
  /\ conns = {}
  /\ result_queue = [c \in Conns |-> <<>>]
  /\ task = [t \in Tracks |-> None]
  /\ latest_result = None
  /\ n_infers = 0
  /\ metrics_store = <<>>
  /\ response = None
  /\ published = [t \in Tracks |-> <<>>]
  /\ last_pub = None
  /\ writer = NoWriter
  /\ ingested = <<>>
  /\ raised_on = [t \in Tracks |-> 0]
  /\ channel = [c \in Conns |-> "none"]
  /\ notified = [t \in Tracks |-> <<>>]
  /\ visible = <<>>
  /\ rooms = NoRooms
  /\ handler = [c \in Clients |-> NotStarted]
  /\ socket = [c \in Clients |-> "none"]
  /\ messages = <<>>
  /\ calls = <<>>

\* POST /offer: a new peer connection with its own result_queue and its
\* "results" data channel, which is not open yet.
offer(c) ==
  /\ c = Cardinality(conns) + 1
  /\ conns' = conns \cup {c}
  /\ result_queue' = [result_queue EXCEPT ![c] = <<>>]
  /\ channel' = [channel EXCEPT ![c] = "connecting"]
  /\ response' = [op |-> "offer", status |-> 200]
  /\ UNCHANGED <<now, task, latest_result, n_infers, metrics_store,
                 published, last_pub, writer, ingested, raised_on, notified, visible,
                 relay_vars>>

\* The data channel of a connection opens once the peers are connected and
\* closes with the connection.
channel_state(c) ==
  /\ channel[c] \in {"connecting", "open"}
  /\ channel' = [channel EXCEPT ![c] = IF @ = "connecting" THEN "open" ELSE "closed"]
  /\ response' = None
  /\ UNCHANGED <<now, conns, result_queue, task, latest_result, n_infers,
                 metrics_store, published, last_pub, writer, ingested, raised_on,
                 notified, visible,
                 relay_vars>>

\* on_track: create_task(recv_frames()) with frame_id = 0; the task first
\* waits for a frame.  capture_ts, t0 and slept_at are the clock reads of
\* main.py:143, 146 and 173 in the last iteration, sleep15 the argument of
\* asyncio.sleep in units of 1/15 ms, ended whether the source has ended.
on_track(c, t) ==
  /\ c \in conns
  /\ task[t] = None
  /\ \A u \in Tracks : u < t => task[u] # None
  /\ task' = [task EXCEPT ![t] = [conn |-> c, pc |-> "recv", frame_id |-> 0,
                                  pending |-> None, ended |-> FALSE,
                                  capture_ts |-> 0, t0 |-> 0, slept_at |-> 0,
                                  sleep15 |-> 0]]
  /\ response' = None
  /\ UNCHANGED <<now, conns, result_queue, latest_result, n_infers, metrics_store,
                 published, last_pub, writer, ingested, raised_on, channel,
                 notified, visible,
                 relay_vars>>

\* frame_id += 1 at main.py:142.
NextFrameIdTwice(fid) == fid + 2

NextFrameId(fid) == fid + 1

\* What the queue holds after the drain loop and the put of main.py:157-162,
\* when the put does not wait.
BackpressureKeepOldest(q, message) == IF q = <<>> THEN <<message>> ELSE q

Backpressure(q, message) == Append(Drain(q), message)

\* main.py:166-171: send on the channel if it is open; an exception of send
\* is swallowed.  "sent": the message left; "missed": it did not;
\* "error": an exception leaves the try statement.
SendUncaught(state, raises) ==
  IF state # "open" THEN "missed" ELSE IF raises THEN "error" ELSE "sent"

Send(state, raises) ==
  IF state = "open" /\ ~raises THEN "sent" ELSE "missed"

\* The rate in 1.0 / 15.0 at main.py:174, frames per second.
TargetFps == 15

\* max(0.0, 1.0 / 15.0 - elapsed) at main.py:174 for an elapsed time in ms;
\* the result is in units of 1/15 ms.
ThrottleWholePeriod(elapsed) == 1000

Throttle(elapsed) ==
  IF 1000 - TargetFps * elapsed > 0 THEN 1000 - TargetFps * elapsed ELSE 0

\* One iteration of the loop of recv_frames, from the arrival of a frame to
\* the next suspension point.
recv_frames(t) ==
  /\ task[t] # None
  /\ task[t].pc = "recv"
  /\ ~task[t].ended
  /\ FramesOf(task, Tracks) + n_infers < MaxFrames
  /\ \E frame \in TrackFrames, d1 \in Delays, d2 \in Delays, raises \in BOOLEAN :
       LET r == infer(frame)
           c == task[t].conn
           frame_id == NextFrameId(task[t].frame_id)
           capture_ts == now
           recv_ts == now + d1
           t0 == recv_ts
           inference_ts == now + d1 + d2
           message == Message(IntId(frame_id), capture_ts, recv_ts,
                              inference_ts, r.dets)
           drained == Drain(result_queue[c])
           sent == Send(channel[c], raises)
           elapsed == inference_ts - t0
       IN
       /\ (d1 = 0 /\ d2 = 0) \/ inference_ts <= Epoch0 + MaxBusy
       /\ channel[c] # "open" => ~raises
       /\ now' = inference_ts
       /\ IF r.raised
          THEN \* detector.infer raises at main.py:147: nothing catches it
               \* and the task ends with the exception
               /\ ~raises
               /\ task' = [task EXCEPT ![t].pc = "failed", ![t].frame_id = frame_id]
               /\ result_queue' = result_queue
               /\ latest_result' = latest_result
               /\ raised_on' = [raised_on EXCEPT ![t] = frame_id]
               /\ UNCHANGED <<published, last_pub, writer, notified>>
          ELSE IF Len(drained) >= QueueMaxsize
          THEN \* await result_queue.put on a full queue suspends the task
               /\ ~raises
               /\ task' = [task EXCEPT ![t].pc = "put_wait",
                                       ![t].frame_id = frame_id,
                                       ![t].pending = message]
               /\ result_queue' = [result_queue EXCEPT ![c] = drained]
               /\ latest_result' = latest_result
               /\ UNCHANGED <<published, last_pub, writer, raised_on, notified>>
          ELSE /\ task' = [task EXCEPT ![t].pc = IF sent = "error" THEN "failed"
                                                 ELSE "sleep",
                                       ![t].frame_id = frame_id,
                                       ![t].capture_ts = capture_ts,
                                       ![t].t0 = t0,
                                       ![t].slept_at = inference_ts,
                                       ![t].sleep15 = Throttle(elapsed)]
               /\ result_queue' = [result_queue EXCEPT
                                     ![c] = Backpressure(result_queue[c], message)]
               /\ latest_result' = message
               /\ published' = [published EXCEPT ![t] = Append(@, frame_id)]
               /\ last_pub' = message
               /\ writer' = TrackWriter(t)
               /\ notified' = [notified EXCEPT
                                 ![t] = IF sent = "sent" THEN Append(@, frame_id)
                                        ELSE @]
               /\ UNCHANGED raised_on
  /\ response' = None
  /\ UNCHANGED <<conns, n_infers, metrics_store, ingested, channel, visible,
                 relay_vars>>

\* When asyncio.sleep(sleep15 / 15 ms), called at slept_at, returns at the
\* earliest, in whole ms.
WakeTime(tk) == tk.slept_at + (tk.sleep15 + TargetFps - 1) \div TargetFps

\* asyncio.sleep at main.py:174 returns, not before the requested time has
\* passed: the task waits for the next frame.
wake(t) ==
  /\ task[t] # None
  /\ task[t].pc = "sleep"
  /\ now' = IF now >= WakeTime(task[t]) THEN now ELSE WakeTime(task[t])
  /\ task' = [task EXCEPT ![t].pc = "recv"]
  /\ response' = None
  /\ UNCHANGED <<conns, result_queue, latest_result, n_infers, metrics_store,
                 published, last_pub, writer, ingested, raised_on, channel,
                 notified, visible,
                 relay_vars>>

\* The frame source of the track ends: the stream is over or the
\* connection was closed.
source_end(t) ==
  /\ task[t] # None
  /\ task[t].pc \in {"recv", "sleep"}
  /\ ~task[t].ended
  /\ task' = [task EXCEPT ![t].ended = TRUE]
  /\ response' = None
  /\ UNCHANGED <<now, conns, result_queue, latest_result, n_infers, metrics_store,
                 published, last_pub, writer, ingested, raised_on, channel,
                 notified, visible,
                 relay_vars>>

\* The async for of main.py:141 finds the source ended: the loop exits and
\* recv_frames returns.
RecvFramesRetry(t) ==
  /\ task[t] # None
  /\ task[t].pc = "recv"
  /\ task[t].ended
  /\ task' = [task EXCEPT ![t].ended = FALSE]
  /\ response' = None
  /\ UNCHANGED <<now, conns, result_queue, latest_result, n_infers, metrics_store,
                 published, last_pub, writer, ingested, raised_on, channel,
                 notified, visible,
                 relay_vars>>

recv_frames_return(t) ==
  /\ task[t] # None
  /\ task[t].pc = "recv"
  /\ task[t].ended
  /\ task' = [task EXCEPT ![t].pc = "done"]
  /\ response' = None
  /\ UNCHANGED <<now, conns, result_queue, latest_result, n_infers, metrics_store,
                 published, last_pub, writer, ingested, raised_on, channel,
                 notified, visible,
                 relay_vars>>

\* The expression at main.py:204: latest_result or the sentinel literal.
LatestUnlessEmpty(lr) ==
  IF Truthy(lr) /\ lr.detections # <<>> THEN lr ELSE Sentinel

latest_body(lr) == IF Truthy(lr) THEN lr ELSE Sentinel

\* GET /latest.
latest ==
  /\ response' = [op |-> "latest", status |-> 200, body |-> latest_body(latest_result)]
  /\ UNCHANGED <<now, conns, result_queue, task, latest_result, n_infers,
                 metrics_store, published, last_pub, writer, ingested, raised_on,
                 channel, notified, visible,
                 relay_vars>>

\* frame_id: str = Form(...) keeps the text of the field.
FormFrameIdAsInt(n) == IntId(n)

FormFrameId(n) == StrId(n)

\* The capture_ts form field of POST /infer (main.py:211): the caller's own
\* clock reading, which may be behind or ahead of the server's clock.
CaptureStamps == {0, Epoch0 + 9000}

\* The dict built at main.py:220-226 from the form fields and the server's
\* two clock reads.
InferResponseServerCapture(fid, cap, rcv, inf, dets) ==
  Message(FormFrameId(fid), rcv, rcv, inf, dets)

InferResponse(fid, cap, rcv, inf, dets) ==
  Message(FormFrameId(fid), cap, rcv, inf, dets)

\* cv2.imdecode followed by detector.infer (main.py:216-218); imdecode
\* returns None on bytes it cannot decode and infer then raises.
InferDecodedOrBlank(image) ==
  IF image = "undecodable" THEN infer("blank") ELSE infer(image)

InferUpload(image) == infer(image)

\* POST /infer with an upload, a frame_id field holding the numeral of fid
\* and a capture_ts field.
infer_endpoint ==
  /\ FramesOf(task, Tracks) + n_infers < MaxFrames
  /\ \E image \in Uploads, fid \in {-1, 1}, cap \in CaptureStamps, d \in Delays :
       LET r == InferUpload(image)
           recv_ts == now
           inference_ts == now + d
           body == InferResponse(fid, cap, recv_ts, inference_ts, r.dets)
           request == [image |-> image, frame_id |-> fid, capture_ts |-> cap]
       IN
       /\ d = 0 \/ inference_ts <= Epoch0 + MaxBusy
       /\ now' = inference_ts
       /\ n_infers' = n_infers + 1
       /\ IF r.raised
          THEN \* the exception leaves the handler: a 500 response
               /\ response' = [op |-> "infer", status |-> 500, request |-> request]
               /\ latest_result' = latest_result
               /\ UNCHANGED <<last_pub, writer>>
          ELSE /\ response' = [op |-> "infer", status |-> 200, request |-> request,
                               body |-> body]
               /\ latest_result' = body
               /\ last_pub' = body
               /\ writer' = InferWriter
  /\ UNCHANGED <<conns, result_queue, task, metrics_store, published, ingested,
                 raised_on, channel, notified, visible,
                 relay_vars>>

Next ==
  \/ \E c \in Conns : offer(c)
  \/ \E c \in Conns, t \in Tracks : on_track(c, t)
  \/ \E t \in Tracks : recv_frames(t)
  \/ \E t \in Tracks : wake(t)
  \/ \E t \in Tracks : source_end(t)
  \/ \E t \in Tracks : recv_frames_return(t)
  \/ latest
  \/ infer_endpoint

Spec == Init /\ [][Next]_vars

\* The pipeline on its own.  A sleep that was started returns and a loop
\* whose source has ended exits: the event loop runs every task that is
\* ready.
NextPipeline ==
  \/ \E c \in Conns : offer(c)
  \/ \E c \in Conns, t \in Tracks : on_track(c, t)
  \/ \E t \in Tracks : recv_frames(t)
  \/ \E t \in Tracks : wake(t)
  \/ \E t \in Tracks : source_end(t)
  \/ \E t \in Tracks : recv_frames_return(t)

SpecPipeline ==
  /\ Init
  /\ [][NextPipeline]_vars
  /\ \A t \in Tracks : WF_vars(wake(t)) /\ WF_vars(recv_frames_return(t))

\* The pipeline with the events of its data channels.
NextPush ==
  \/ \E c \in Conns : offer(c)
  \/ \E c \in Conns : channel_state(c)
  \/ \E c \in Conns, t \in Tracks : on_track(c, t)
  \/ \E t \in Tracks : recv_frames(t)
  \/ \E t \in Tracks : wake(t)
  \/ \E t \in Tracks : source_end(t)
  \/ \E t \in Tracks : recv_frames_return(t)

SpecPush == Init /\ [][NextPush]_vars


(***************************************************************************)
(* The relay: the WebSocket endpoint /ws.  receive_text is taken to return *)
(* the next text message or to raise WebSocketDisconnect.                  *)
(***************************************************************************)
\* The variables of the rest of the server.
server_vars ==
  <<now, conns, result_queue, task, latest_result, n_infers, metrics_store,
    published, last_pub, writer, ingested, raised_on, channel, notified, visible>>

\* Text messages received by the relay before the model stops feeding them.
MaxMessages == 2

\* rooms.get(room, {}) as the list of its keys.
MembersOf(rms, room) == IF room \in DOMAIN rms THEN rms[room] ELSE <<>>

\* main.py:105-107: create the room if needed and add the client.
Join(rms, room, c) ==
  [r \in DOMAIN rms \cup {room} |->
     IF r = room THEN Append(MembersOf(rms, room), c) ELSE rms[r]]

\* main.py:120-125: pop the client and then the room if it is empty; a
\* missing room is a KeyError, which is caught.
LeaveKeepEmptyRoom(rms, room, c) ==
  IF room \notin DOMAIN rms THEN rms
  ELSE [rms EXCEPT ![room] = SelectSeq(@, LAMBDA x : x # c)]

Leave(rms, room, c) ==
  IF room \notin DOMAIN rms THEN rms
  ELSE LET left == SelectSeq(rms[room], LAMBDA x : x # c)
       IN IF left = <<>>
          THEN [r \in DOMAIN rms \ {room} |-> rms[r]]
          ELSE [rms EXCEPT ![room] = left]

\* main.py:112-114: the snapshot of the room without the sender.
RecipientsWithSender(members, client_id) == members

Recipients(members, client_id) == SelectSeq(members, LAMBDA cid : cid # client_id)

\* The clients whose coroutine is between its registration and its
\* WebSocketDisconnect.
Connected(c) == handler[c].pc \in {"receive", "send"}

\* ws_endpoint up to its first receive_text: accept and register.
ws_endpoint(c, room) ==
  /\ handler[c].pc = "none"
  /\ c = Cardinality({x \in Clients : handler[x].pc # "none"}) + 1
  /\ socket' = [socket EXCEPT ![c] = "open"]
  /\ rooms' = Join(rooms, room, c)
  /\ handler' = [handler EXCEPT ![c] = [pc |-> "receive", room |-> room,
                                        message |-> 0, todo |-> <<>>]]
  /\ response' = None
  /\ UNCHANGED <<messages, calls, server_vars>>

\* receive_text returns a text message: the coroutine takes the snapshot
\* of its room and goes to the first send_text, if there is one.
ws_receive_text(c) ==
  /\ handler[c].pc = "receive"
  /\ socket[c] = "open"
  /\ Len(messages) < MaxMessages
  /\ LET room == handler[c].room
         todo == Recipients(MembersOf(rooms, room), c)
         audience == {x \in Clients \ {c} : Connected(x) /\ handler[x].room = room}
     IN /\ messages' = Append(messages, [from |-> c, room |-> room,
                                         audience |-> audience])
        /\ calls' = Append(calls, [x \in Clients |-> 0])
        /\ handler' = [handler EXCEPT
                         ![c].pc = IF todo = <<>> THEN "receive" ELSE "send",
                         ![c].message = Len(messages) + 1,
                         ![c].todo = todo]
  /\ response' = None
  /\ UNCHANGED <<rooms, socket, server_vars>>

\* One await cws.send_text(message) of the loop at main.py:112-118; an
\* exception of the send (the peer of cws has gone) is swallowed.
ws_send_text(c) ==
  /\ handler[c].pc = "send"
  /\ LET cws == Head(handler[c].todo)
         rest == Tail(handler[c].todo)
     IN /\ calls' = [calls EXCEPT ![handler[c].message][cws] = @ + 1]
        /\ handler' = [handler EXCEPT
                         ![c].pc = IF rest = <<>> THEN "receive" ELSE "send",
                         ![c].todo = rest]
  /\ response' = None
  /\ UNCHANGED <<rooms, socket, messages, server_vars>>

\* The peer of a WebSocket closes it, or the network drops it.
ws_close(c) ==
  /\ socket[c] = "open"
  /\ socket' = [socket EXCEPT ![c] = "closed"]
  /\ response' = None
  /\ UNCHANGED <<rooms, handler, messages, calls, server_vars>>

\* receive_text raises WebSocketDisconnect: the handler at main.py:119-125
\* removes the client, and the coroutine returns.
ws_disconnect(c) ==
  /\ handler[c].pc = "receive"
  /\ socket[c] = "closed"
  /\ rooms' = Leave(rooms, handler[c].room, c)
  /\ handler' = [handler EXCEPT ![c].pc = "closed"]
  /\ response' = None
  /\ UNCHANGED <<socket, messages, calls, server_vars>>

NextRelay ==
  \/ \E c \in Clients, room \in RoomNames : ws_endpoint(c, room)
  \/ \E c \in Clients : ws_receive_text(c)
  \/ \E c \in Clients : ws_send_text(c)
  \/ \E c \in Clients : ws_close(c)
  \/ \E c \in Clients : ws_disconnect(c)

SpecRelay == Init /\ [][NextRelay]_vars


(***************************************************************************)
(* Telemetry: /metrics/ingest and /metrics/summary.                        *)
(***************************************************************************)
\* The payloads posted to /metrics/ingest.  Each carries all four keys;
\* ts is set by the reporter and need not follow arrival order.
TsValues == {1000, 3000, 5000}
Latencies == {10, 20}
Payloads ==
  [ts : TsValues, e2e_latency_ms : Latencies, bytes_uplink : {100},
   bytes_downlink : {40}]

\* The duration query parameter of /metrics/summary (seconds).
Durations == {1, 3}
\* Time that passes in one step of the clock between telemetry requests (ms).
TickSteps == {1000}

\* A Python float holding the value x, and a float holding num/den.
Float(x) == [num |-> x, den |-> 1]
Ratio(num, den) == [num |-> num, den |-> den]

\* main.py:240-241: del metrics_store[: len(metrics_store) - 10000].
EvictNewest(store) ==
  IF Len(store) > N_max THEN SubSeq(store, 1, N_max) ELSE store

Evict(store) ==
  IF Len(store) > N_max
  THEN SubSeq(store, Len(store) - N_max + 1, Len(store))
  ELSE store

\* The values of metrics_store that another handler can read while
\* metrics_ingest serves a payload, the last being the one it leaves.  The
\* handler has no await between the append and the del (main.py:238-241),
\* so the event loop runs nothing else until it returns.
IngestStatesWithYield(store, payload) ==
  <<Append(store, payload), Evict(Append(store, payload))>>

IngestStates(store, payload) == <<Evict(Append(store, payload))>>

\* POST /metrics/ingest.
metrics_ingest ==
  /\ Len(ingested) < MaxIngests
  /\ \E payload \in Payloads :
       /\ visible' = IngestStates(metrics_store, payload)
       /\ metrics_store' = visible'[Len(visible')]
       /\ ingested' = Append(ingested, payload)
  /\ response' = [op |-> "ingest", status |-> 200, body |-> [ok |-> TRUE]]
  /\ UNCHANGED <<now, conns, result_queue, task, latest_result, n_infers,
                 published, last_pub, writer, raised_on, channel, notified,
                 relay_vars>>

\* main.py:250: the samples with ts >= now_ms - window_ms, in store order.
RECURSIVE WindowStrict(_, _, _)
WindowStrict(store, now_ms, window_ms) ==
  IF store = <<>> THEN <<>>
  ELSE IF Head(store).ts > now_ms - window_ms
       THEN <<Head(store)>> \o WindowStrict(Tail(store), now_ms, window_ms)
       ELSE WindowStrict(Tail(store), now_ms, window_ms)

RECURSIVE Window(_, _, _)
Window(store, now_ms, window_ms) ==
  IF store = <<>> THEN <<>>
  ELSE IF Head(store).ts >= now_ms - window_ms
       THEN <<Head(store)>> \o Window(Tail(store), now_ms, window_ms)
       ELSE Window(Tail(store), now_ms, window_ms)

\* sorted(...) at main.py:260, by insertion.
RECURSIVE Insert(_, _)
Insert(x, sorted) ==
  IF sorted = <<>> THEN <<x>>
  ELSE IF x <= Head(sorted) THEN <<x>> \o sorted
       ELSE <<Head(sorted)>> \o Insert(x, Tail(sorted))

RECURSIVE Sorted(_)
Sorted(xs) == IF xs = <<>> THEN <<>> ELSE Insert(Head(xs), Sorted(Tail(xs)))

\* Python's round(num/den) for num >= 0, den > 0: the nearest integer, a tie
\* going to the even one.  (For p in {0.5, 0.95} and n <= 10001 the float
\* product p*(n-1) rounds as the exact quotient does.)
PyRound(num, den) ==
  LET q == num \div den
      r == num % den
  IN IF 2 * r < den THEN q
     ELSE IF 2 * r > den THEN q + 1
     ELSE IF q % 2 = 0 THEN q ELSE q + 1

Min2(a, b) == IF a <= b THEN a ELSE b
Max2(a, b) == IF a >= b THEN a ELSE b

\* pct at main.py:261-265, with p = p_num/p_den.
PctHalfUp(lats, p_num, p_den) ==
  IF lats = <<>> THEN Float(0)
  ELSE LET x == p_num * (Len(lats) - 1)
           idx == Min2(Len(lats) - 1, Max2(0, (2 * x + p_den) \div (2 * p_den)))
       IN Float(lats[idx + 1])

pct(lats, p_num, p_den) ==
  IF lats = <<>> THEN Float(0)
  ELSE LET idx == Min2(Len(lats) - 1,
                       Max2(0, PyRound(p_num * (Len(lats) - 1), p_den)))
       IN Float(lats[idx + 1])

RECURSIVE SumOf(_, _)
SumOf(window, key) ==
  IF window = <<>> THEN 0 ELSE Head(window)[key] + SumOf(Tail(window), key)

\* main.py:266: duration_s = max(1.0, (window[-1]["ts"] - window[0]["ts"]) / 1000.0),
\* in ms.
duration_ms(window) == Max2(1000, window[Len(window)].ts - window[1].ts)

\* The body of the /metrics/summary response, main.py:248-277.
summary_body(store, now_ms, duration) ==
  LET window_ms == duration * 1000
      window == Window(store, now_ms, window_ms)
  IN IF window = <<>>
     THEN [count |-> 0, median_latency_ms |-> None, p95_latency_ms |-> None,
           fps |-> Float(0), kbps_uplink |-> Float(0), kbps_downlink |-> Float(0)]
     ELSE LET lats == Sorted([i \in 1..Len(window) |-> window[i].e2e_latency_ms])
              dur == duration_ms(window)
          IN [count |-> Len(window),
              median_latency_ms |-> pct(lats, 1, 2),
              p95_latency_ms |-> pct(lats, 19, 20),
              \* len(window) / duration_s
              fps |-> Ratio(Len(window) * 1000, dur),
              \* sum * 8.0 / 1000.0 / duration_s
              kbps_uplink |-> Ratio(SumOf(window, "bytes_uplink") * 8, dur),
              kbps_downlink |-> Ratio(SumOf(window, "bytes_downlink") * 8, dur)]

\* GET /metrics/summary?duration=...
metrics_summary ==
  /\ \E duration \in Durations :
       response' = [op |-> "summary", status |-> 200, duration |-> duration,
                    body |-> summary_body(metrics_store, now, duration)]
  /\ UNCHANGED <<now, conns, result_queue, task, latest_result, n_infers,
                 metrics_store, published, last_pub, writer, ingested, raised_on,
                 channel, notified, visible,
                 relay_vars>>

\* Time passes between telemetry requests.
Tick ==
  /\ \E d \in TickSteps :
       /\ now + d <= Epoch0 + 1000 * MaxTicks
       /\ now' = now + d
  /\ response' = None
  /\ UNCHANGED <<conns, result_queue, task, latest_result, n_infers, metrics_store,
                 published, last_pub, writer, ingested, raised_on, channel,
                 notified, visible,
                 relay_vars>>

NextMetrics ==
  \/ Tick
  \/ metrics_ingest
  \/ metrics_summary

SpecMetrics == Init /\ [][NextMetrics]_vars


(***************************************************************************)
(* Properties of the pipeline and of latest_result, under Spec.            *)
(***************************************************************************)
IsResponse(op) == response # None /\ response.op = op

\* C1: a GET /latest served after N >= 1 publishes (by recv_frames or by
\* /infer) and before any further publish returns exactly the FrameResult
\* published last, never an earlier one.
C1_PeekReturnsLastPublished ==
  (IsResponse("latest") /\ last_pub # None) => response.body = last_pub

\* GET /latest answers after a track published twice and is given the second.
C1_Witness ==
  /\ IsResponse("latest")
  /\ \E t \in Tracks : Len(published[t]) >= 2 /\ writer = TrackWriter(t)
  /\ response.body.frame_id = IntId(2)

\* C2: the frame_id values one recv_frames task publishes are 1, 2, 3, ...
\* in order, with no gap and no repeat.
C2_FrameIdsConsecutive ==
  \A t \in Tracks : \A i \in 1..Len(published[t]) : published[t][i] = i

\* A task has published two frames.
C2_Witness == \E t \in Tracks : Len(published[t]) >= 2

\* C3: the publish step of recv_frames never waits: after the drain the put
\* finds room in the size-1 queue, although nobody ever reads the queue.
C3_PublishNeverWaits ==
  \A t \in Tracks : task[t] # None => task[t].pc # "put_wait"

\* A task published a second frame while the queue still held the first.
C3_Witness ==
  \E t \in Tracks :
    /\ task[t] # None
    /\ task[t].pc = "sleep"
    /\ Len(published[t]) >= 2
    /\ Len(result_queue[task[t].conn]) = QueueMaxsize

\* C5: when infer raises on frame k the task does not end, and it publishes
\* a FrameResult for frame k.
C5_PipelineSurvivesInferError ==
  \A t \in Tracks :
    raised_on[t] # 0 =>
      /\ task[t].pc # "failed"
      /\ \E i \in 1..Len(published[t]) : published[t][i] = raised_on[t]

\* C6: each pipeline instance is the only writer of the slot it publishes to:
\* once a track has published, a publish by another track or by /infer does
\* not change what a read of the slot returns.
C6_SingleWriterPerSlot ==
  [][(writer.kind = "track" /\ writer' # writer)
       => latest_body(latest_result') = latest_body(latest_result)]_vars

\* C10: GET /latest returns the sentinel if and only if nothing has been
\* published yet, and no published FrameResult has frame_id -1.
C10_SentinelOnlyBeforeFirstPublish ==
  /\ IsResponse("latest") => (response.body = Sentinel <=> last_pub = None)
  /\ last_pub # None => last_pub.frame_id # IntId(-1)

\* GET /latest answers with a zero-detection result that /infer published
\* under the frame_id text "-1".
C10_Witness ==
  /\ IsResponse("latest")
  /\ last_pub # None
  /\ response.body.frame_id = StrId(-1)
  /\ response.body.capture_ts = 0
  /\ response.body.detections = <<>>

(***************************************************************************)
(* Properties of the telemetry store, under SpecMetrics.                   *)
(***************************************************************************)
\* The positions of metrics_store inside the window of the summary request
\* just served.
InWindow ==
  {i \in 1..Len(metrics_store) :
     metrics_store[i].ts >= now - response.duration * 1000}

\* v is the element at 0-based index idx of the ascending sort of the
\* latencies in the window.
IsOrderStatistic(v, idx) ==
  /\ Cardinality({i \in InWindow : metrics_store[i].e2e_latency_ms < v}) <= idx
  /\ Cardinality({i \in InWindow : metrics_store[i].e2e_latency_ms <= v}) > idx

\* The sum of a field over the positions idxs of metrics_store.
RECURSIVE SumAt(_, _)
SumAt(idxs, key) ==
  IF idxs = {} THEN 0
  ELSE LET i == CHOOSE x \in idxs : TRUE
       IN metrics_store[i][key] + SumAt(idxs \ {i}, key)

CeilDiv(a, b) == (a + b - 1) \div b

Abs(x) == IF x >= 0 THEN x ELSE -x

\* i is the integer nearest to num/den, the even one of the two on a tie.
IsNearestTiesEven(i, num, den) ==
  /\ 2 * Abs(den * i - num) <= den
  /\ 2 * Abs(den * i - num) = den => i % 2 = 0

\* The latencies 10, 20, ..., 10*n.
Ramp(n) == [i \in 1..n |-> 10 * i]

\* Window sizes for which pct is evaluated on its own.
MaxPctLen == 24

\* C4: the store holds the last min(k, N_max) of the k payloads ingested, in
\* arrival order.
C4_StoreKeepsNewest ==
  LET k == Len(ingested)
      m == Min2(k, N_max)
  IN /\ Len(metrics_store) = m
     /\ \A i \in 1..m : metrics_store[i] = ingested[k - m + i]

\* An ingest has evicted the oldest payload, which differs from the oldest kept.
C4_Witness ==
  /\ Len(ingested) > N_max
  /\ Len(metrics_store) = N_max
  /\ ingested[1] # metrics_store[1]

\* C7, as stated: the median is at index ceil(0.5*(n-1)) and p95 at index
\* ceil(0.95*(n-1)) of the sorted latencies of the window.
C7_PercentilesAtCeilRank ==
  (IsResponse("summary") /\ response.body.count > 0) =>
    LET n == Cardinality(InWindow)
    IN /\ IsOrderStatistic(response.body.median_latency_ms.num, CeilDiv(n - 1, 2))
       /\ IsOrderStatistic(response.body.p95_latency_ms.num, CeilDiv(19 * (n - 1), 20))

\* C7, amended: the median is at index round(0.5*(n-1)) and p95 at index
\* round(0.95*(n-1)), round being to the nearest integer with a tie going to
\* the even one; for a summary just served, and for pct on 1..MaxPctLen
\* distinct sorted latencies.
C7_PercentilesAtRoundedRank ==
  /\ (IsResponse("summary") /\ response.body.count > 0) =>
       LET n == Cardinality(InWindow)
       IN /\ \E i \in 0..(n - 1) :
               /\ IsNearestTiesEven(i, n - 1, 2)
               /\ IsOrderStatistic(response.body.median_latency_ms.num, i)
          /\ \E i \in 0..(n - 1) :
               /\ IsNearestTiesEven(i, 19 * (n - 1), 20)
               /\ IsOrderStatistic(response.body.p95_latency_ms.num, i)
  /\ \A n \in 1..MaxPctLen :
       /\ \E i \in 0..(n - 1) :
            IsNearestTiesEven(i, n - 1, 2) /\ pct(Ramp(n), 1, 2) = Float(10 * (i + 1))
       /\ \E i \in 0..(n - 1) :
            IsNearestTiesEven(i, 19 * (n - 1), 20)
              /\ pct(Ramp(n), 19, 20) = Float(10 * (i + 1))

\* A summary over two samples with latencies 10 and 20 reports the median 10.
C7_Witness ==
  /\ IsResponse("summary")
  /\ response.body.count = 2
  /\ response.body.median_latency_ms = Float(10)
  /\ response.body.p95_latency_ms = Float(20)

\* C8: duration_s is max(1.0, (max ts - min ts of the window) / 1000) and
\* fps = count / duration_s, whatever the arrival order of the samples.
C8_DurationSpansMinToMaxTs ==
  (IsResponse("summary") /\ response.body.count > 0) =>
    LET tss == {metrics_store[i].ts : i \in InWindow}
        hi == CHOOSE x \in tss : \A y \in tss : y <= x
        lo == CHOOSE x \in tss : \A y \in tss : x <= y
        claimed_ms == Max2(1000, hi - lo)
    IN response.body.fps.num * claimed_ms
         = response.body.count * 1000 * response.body.fps.den

\* C9: a summary counts exactly the stored samples with
\* ts >= now - duration*1000 and sums their bytes; when there are none it
\* returns count 0, null latencies and zero rates; it leaves the store as
\* it was.
C9_SummaryOverWindow ==
  [][(response' # None /\ response'.op = "summary") =>
       LET in_window == {i \in 1..Len(metrics_store) :
                           metrics_store[i].ts >= now - response'.duration * 1000}
           body == response'.body
       IN /\ metrics_store' = metrics_store
          /\ ingested' = ingested
          /\ body.count = Cardinality(in_window)
          /\ body.kbps_uplink.num = 8 * SumAt(in_window, "bytes_uplink")
          /\ body.kbps_downlink.num = 8 * SumAt(in_window, "bytes_downlink")
          /\ in_window = {} =>
               /\ body.count = 0
               /\ body.median_latency_ms = None
               /\ body.p95_latency_ms = None
               /\ body.fps.num = 0
               /\ body.kbps_uplink.num = 0
               /\ body.kbps_downlink.num = 0]_vars

\* A summary over a store whose samples are all older than the window.
C9_Witness ==
  /\ IsResponse("summary")
  /\ metrics_store # <<>>
  /\ response.body.count = 0
  /\ response.body.median_latency_ms = None

(***************************************************************************)
(* Properties of POST /infer, under Spec.                                  *)
(***************************************************************************)
\* The three timestamps of a FrameResult are in order.
Ordered(m) == m.capture_ts <= m.recv_ts /\ m.recv_ts <= m.inference_ts

\* C11: every FrameResult published to the slot or returned by POST /infer
\* has capture_ts <= recv_ts <= inference_ts.
C11_TimestampsOrdered ==
  /\ last_pub # None => Ordered(last_pub)
  /\ (IsResponse("infer") /\ response.status = 200) => Ordered(response.body)

\* C12: POST /infer with bytes that do not decode answers with an error and
\* publishes nothing: the slot, every pipeline's frame_id counter and loop
\* position, the queues and the telemetry store stay as they were.
C12_UndecodableUploadPublishesNothing ==
  [][(response' # None /\ response'.op = "infer"
        /\ response'.request.image = "undecodable") =>
       /\ response'.status >= 400
       /\ latest_result' = latest_result
       /\ last_pub' = last_pub
       /\ writer' = writer
       /\ task' = task
       /\ published' = published
       /\ result_queue' = result_queue
       /\ metrics_store' = metrics_store]_vars

\* An undecodable upload is refused while the slot holds a result and a
\* pipeline is in the middle of its loop.
C12_Witness ==
  /\ IsResponse("infer")
  /\ response.request.image = "undecodable"
  /\ response.status = 500
  /\ latest_result # None
  /\ \E t \in Tracks : task[t] # None /\ task[t].frame_id >= 1

\* C13: a successful POST /infer returns the detector's result for the
\* upload under the caller's frame_id and capture_ts, and has published
\* that same record: a read of the slot made next returns an equal record.
C13_InferPublishesWhatItReturns ==
  (IsResponse("infer") /\ response.status = 200) =>
    /\ response.body.frame_id = StrId(response.request.frame_id)
    /\ response.body.capture_ts = response.request.capture_ts
    /\ response.body.detections = infer(response.request.image).dets
    /\ latest_result = response.body
    /\ latest_body(latest_result) = response.body
    /\ last_pub = response.body
    /\ writer = InferWriter

\* POST /infer succeeds on an upload with a box after a pipeline has
\* published.
C13_Witness ==
  /\ IsResponse("infer")
  /\ response.status = 200
  /\ response.request.frame_id = 1
  /\ response.body.detections # <<>>
  /\ \E t \in Tracks : published[t] # <<>>

(***************************************************************************)
(* Properties of the pipeline, under SpecPipeline and SpecPush.            *)
(***************************************************************************)
\* The recv_frames task of track t has ended, by return or by exception.
Terminated(t) == task[t] # None /\ task[t].pc \in {"done", "failed"}

\* C17: once the source of a pipeline has ended its task terminates; a task
\* that has returned never runs again (the source is not retried) and
\* publishes nothing, and the slot changes only when another pipeline
\* publishes.
C17_SourceEndStopsPipeline ==
  /\ \A t \in Tracks : (task[t] # None /\ task[t].ended) ~> Terminated(t)
  /\ [][\A t \in Tracks :
          (task[t] # None /\ task[t].pc = "done") =>
            /\ task'[t] = task[t]
            /\ published'[t] = published[t]
            /\ notified'[t] = notified[t]
            /\ latest_result' # latest_result =>
                 \E u \in Tracks \ {t} : published'[u] # published[u]]_vars

\* A task has returned after publishing, and the slot still holds its last
\* message.
C17_Witness ==
  \E t \in Tracks :
    /\ task[t] # None
    /\ task[t].pc = "done"
    /\ Len(published[t]) >= 2
    /\ writer = TrackWriter(t)
    /\ latest_result = last_pub

\* C18: the push on the data channel is best-effort.  A publish sets the
\* slot and leaves the task at its sleep whatever the channel does; the
\* channel gets the message of this publish or nothing, never an earlier
\* one, and it gets nothing when it is not open.
C18_PushIsBestEffort ==
  [][\A t \in Tracks :
       IF published'[t] # published[t]
       THEN LET k == published'[t][Len(published'[t])]
            IN /\ latest_result' = last_pub'
               /\ latest_result'.frame_id = IntId(k)
               /\ task'[t].pc = "sleep"
               /\ notified'[t] \in {notified[t], Append(notified[t], k)}
               /\ channel[task[t].conn] # "open" => notified'[t] = notified[t]
       ELSE notified'[t] = notified[t]]_vars

\* On an open channel the first message of a task was missed and the
\* second was sent: the first one is not sent afterwards.
C18_Witness ==
  \E t \in Tracks :
    /\ task[t] # None
    /\ task[t].pc = "sleep"
    /\ channel[task[t].conn] = "open"
    /\ published[t] = <<1, 2>>
    /\ notified[t] = <<2>>
    /\ latest_result.frame_id = IntId(2)

\* The throttle of a step of track t, with the iteration taken to start at
\* the clock read start_after (of the iteration just run) or start_before
\* (of the iteration before the frame now accepted): the sleep asked for is
\* the rest of the period 1/TargetFps s, or zero, and a frame is accepted
\* no sooner than one period after the start of the iteration before.
Throttled(before, after, start_before, start_after) ==
  /\ (after # None /\ after.pc = "sleep") =>
       LET took == after.slept_at - start_after
       IN IF TargetFps * took < 1000
          THEN after.sleep15 = 1000 - TargetFps * took
          ELSE after.sleep15 = 0
  /\ (before # None /\ before.frame_id >= 1 /\ after.frame_id = before.frame_id + 1) =>
       TargetFps * (now - start_before) >= 1000

\* C19 as stated: the iteration of frame k starts when frame k is accepted
\* (the clock read of main.py:143, before the frame is converted).
C19_ThrottleFromFrameArrival ==
  [][\A t \in Tracks :
       Throttled(task[t], task'[t],
                 IF task[t] = None THEN 0 ELSE task[t].capture_ts,
                 IF task'[t] = None THEN 0 ELSE task'[t].capture_ts)]_vars

\* C19, amended: the period is counted from t0, the clock read of
\* main.py:146 after the frame has been converted.  The task asks for a
\* sleep of the period less the time from t0 to the end of the publish, or
\* of zero when that time is the period or more, and accepts the next frame
\* no sooner than one period after t0.
C19_ThrottleFromT0 ==
  [][\A t \in Tracks :
       Throttled(task[t], task'[t],
                 IF task[t] = None THEN 0 ELSE task[t].t0,
                 IF task'[t] = None THEN 0 ELSE task'[t].t0)]_vars

\* A task accepted its second frame after an iteration that was slower
\* than the period, and sleeps for the rest of the period after this one.
C19_Witness ==
  \E t \in Tracks :
    /\ task[t] # None
    /\ task[t].pc = "sleep"
    /\ task[t].frame_id = 2
    /\ task[t].sleep15 = 1000
    /\ task[t].t0 >= Epoch0 + MaxBusy

\* C20: a result_queue never holds more than one message, and right after
\* a publish the queue of the publishing task's connection holds exactly
\* the message that the publish wrote to latest_result.
C20_QueueHoldsLastPublished ==
  [][/\ \A c \in Conns : Len(result_queue'[c]) <= QueueMaxsize
     /\ \A t \in Tracks :
          published'[t] # published[t] =>
            /\ result_queue'[task[t].conn] = <<latest_result'>>
            /\ latest_result'.frame_id = IntId(published'[t][Len(published'[t])])]_vars

\* Two tracks of one connection have published, the second onto the
\* message that the first left in their queue.
C20_Witness ==
  \E t \in Tracks, u \in Tracks :
    /\ t # u
    /\ task[t] # None /\ task[u] # None
    /\ task[t].conn = task[u].conn
    /\ published[t] # <<>> /\ published[u] # <<>>
    /\ writer = TrackWriter(u)
    /\ result_queue[task[u].conn] = <<latest_result>>

(***************************************************************************)
(* Atomicity of an ingest, under SpecMetrics.                              *)
(***************************************************************************)
\* C16: an ingest is one step for every other handler: the only value of
\* the store they can read during it is the one it leaves, which is never
\* longer than N_max; the store is always the arrivals in order less a
\* prefix, and nothing is evicted while N_max is not exceeded.
C16_IngestIsAtomic ==
  /\ \A i \in 1..Len(visible) : Len(visible[i]) <= N_max
  /\ visible # <<>> => visible = <<metrics_store>>
  /\ \E k \in 0..Len(ingested) :
       /\ metrics_store = SubSeq(ingested, k + 1, Len(ingested))
       /\ k > 0 => Len(metrics_store) = N_max

\* An ingest has evicted the oldest sample, and samples of different
\* reporters are in the store.
C16_Witness ==
  /\ IsResponse("ingest")
  /\ Len(ingested) > N_max
  /\ Len(metrics_store) = N_max
  /\ \E i, j \in 1..Len(metrics_store) : metrics_store[i] # metrics_store[j]

(***************************************************************************)
(* Properties of the relay, under SpecRelay.                               *)
(***************************************************************************)
\* The forwarding of message k is over.
Forwarded(k) ==
  ~(handler[messages[k].from].pc = "send" /\ handler[messages[k].from].message = k)

\* C14: a text message from a member of a room is sent once to each other
\* client that was connected in that room when it was received, and to
\* nobody else: not to its sender and not to a client of another room.
C14_ForwardedOnceToRoom ==
  \A k \in 1..Len(messages) :
    /\ \A x \in Clients : calls[k][x] <= 1
    /\ calls[k][messages[k].from] = 0
    /\ \A x \in Clients :
         calls[k][x] > 0 =>
           x \in messages[k].audience /\ handler[x].room = messages[k].room
    /\ Forwarded(k) => \A x \in messages[k].audience : calls[k][x] = 1

\* A message has been forwarded in a room of two while a client of another
\* room was connected.
C14_Witness ==
  \E k \in 1..Len(messages) :
    /\ Forwarded(k)
    /\ messages[k].audience # {}
    /\ \E x \in Clients : Connected(x) /\ handler[x].room # messages[k].room

\* The clients registered in a room.
Registered(room) ==
  {MembersOf(rooms, room)[i] : i \in 1..Len(MembersOf(rooms, room))}

\* C15: the registry holds exactly the connected clients, each once and in
\* its own room, and no room without members.
C15_RegistryIsConnectedClients ==
  /\ DOMAIN rooms \subseteq RoomNames
  /\ \A room \in RoomNames :
       /\ Registered(room) = {c \in Clients : Connected(c) /\ handler[c].room = room}
       /\ Cardinality(Registered(room)) = Len(MembersOf(rooms, room))
  /\ \A room \in DOMAIN rooms : rooms[room] # <<>>

\* The last member of a room has left and the room is gone, while another
\* room has a member.
C15_Witness ==
  /\ \E c \in Clients : handler[c].pc = "closed" /\ handler[c].room \notin DOMAIN rooms
  /\ DOMAIN rooms # {}

=============================================================================
